---- MODULE Spec2Model ----
(***************************************************************************)
(* docker-autoproxy: the polling loop of autoproxy.go (second revision,    *)
(* lines 377-803): getExistingContainers, configureAndReload and the file  *)
(* helpers it calls, and reloadNginxConfiguration.                         *)
(*                                                                         *)
(* Strings that the code takes apart (container names, the reload output)  *)
(* are sequences of one-character strings; strings that the code only      *)
(* compares or joins are TLA+ strings.                                     *)
(***************************************************************************)
EXTENDS Integers, Sequences, FiniteSets, TLC

VARIABLES
    pc,             \* position of main: the step that runs next
    err,            \* "nil", or the step whose error made exitOnError exit
    apiContainers,  \* answer of the docker API in the current cycle
    containers,     \* []*containerConfig returned by getExistingContainers
    confDir,        \* /etc/nginx/conf.d: file name -> file
    htDir,          \* /etc/nginx/htpasswd.d: file name -> file
    sslDir,         \* /etc/nginx/ssl.d: the set of <<name, extension>> present
    execErr,        \* names of the endpoints on which template.Execute fails
    reloadRequired, \* local variable of configureAndReload
    completed,      \* a cycle of this process run has finished
    same,           \* this cycle got the endpoint list of the cycle before it
    started,        \* names listed in this cycle and not in the cycle before it
    confBefore,     \* confDir when the current cycle began
    htBefore,       \* htDir when the current cycle began
    wrote,          \* <<directory, name>> written in the current cycle
    removed,        \* <<directory, name>> deleted in the current cycle
    reloads,        \* invocations of `nginx -s reload` in the current cycle
    cmdExit,        \* exit code of the reload command
    cmdOutput,      \* combined output of the reload command
    reloadErr,      \* reloadNginxConfiguration returned an error
    unloaded,       \* an earlier process run changed a file and nginx was not
                    \* asked to reload since
    interrupted,    \* the cycle in which the process run before this one
                    \* ended: the directories at its start, its endpoints
    uninspected     \* the listed containers whose artifacts were on disk when
                    \* a completed cycle failed to inspect them, and that no
                    \* cycle has inspected since

vars == <<pc, err, apiContainers, containers, confDir, htDir, sslDir, execErr,
          reloadRequired, completed, same, started, confBefore, htBefore,
          wrote, removed, reloads, cmdExit, cmdOutput, reloadErr,
          unloaded, interrupted, uninspected>>

(***************************************************************************)
(* Bounds of the model.                                                    *)
(***************************************************************************)
\* port numbers a container may expose: 1..MaxPorts
MaxPorts == 2
\* longest JSON array in HTPASSWD
MaxEntries == 2
\* longest combined output of the reload command, in characters
MaxOut == 5
\* times the process is started again after it ended
MaxRestarts == 1

(***************************************************************************)
(* Strings as character sequences.                                         *)
(***************************************************************************)
RECURSIVE TrimLeft(_, _)
\* strings.TrimLeft(s, cutset): drop the leading characters that are in cutset
TrimLeft(s, cutset) ==
    IF s # <<>> /\ Head(s) \in cutset THEN TrimLeft(Tail(s), cutset) ELSE s

\* strings.Contains(s, substr)
Contains(s, substr) ==
    \E i \in 1..(Len(s) - Len(substr) + 1) :
        SubSeq(s, i, i + Len(substr) - 1) = substr

RECURSIVE Join(_, _)
\* strings.Join(a, sep)
Join(a, sep) ==
    IF a = <<>> THEN ""
    ELSE IF Len(a) = 1 THEN a[1]
    ELSE a[1] \o sep \o Join(Tail(a), sep)

(***************************************************************************)
(* The docker API as getExistingContainers sees it.                        *)
(***************************************************************************)
\* container names as the API reports them (Names[0] starts with a slash)
BaseNames == {<<"a">>, <<"b">>}
ApiName(n) == <<"/">> \o n

\* the environment of a container: a function from the variables that are
\* set to their values.  EnvOf builds it; "-" stands for "not set".
NotSet == [set |-> FALSE]
Set(v) == [set |-> TRUE, v |-> v]

EnvKeys == {"VIRTUAL_HOST", "VIRTUAL_PORT", "SSL_CERT_NAME", "HTPASSWD"}
EnvOf(vh, vp, ssl, ht) ==
    LET all == [k \in EnvKeys |->
                   CASE k = "VIRTUAL_HOST" -> vh
                     [] k = "VIRTUAL_PORT" -> vp
                     [] k = "SSL_CERT_NAME" -> ssl
                     [] k = "HTPASSWD" -> ht]
    IN  [k \in {x \in EnvKeys : all[x].set} |-> all[k].v]

\* docker.Env.Map()[key]: the value and whether the key is present
EnvHas(env, key) == key \in DOMAIN env
\* docker.Env.Get(key): "" when the key is absent
EnvGet(env, key) == IF key \in DOMAIN env THEN env[key] ELSE ""

\* docker.Port.Port(): the number of "80/tcp"
PortOf(k) == k.num
ExposedPort(n) == [num |-> ToString(n), proto |-> "tcp"]

(***************************************************************************)
(* HTPASSWD: the text of the variable, by how encoding/json reads it.      *)
(*   empty  - the empty string: Env.GetJSON returns nil without decoding   *)
(*   syntax - not JSON: Unmarshal fails before it stores anything          *)
(*   scalar - JSON, but no array: a type error, nothing stored             *)
(*   array  - elements that are strings ("str") or not ("num"): a          *)
(*            non-string element is stored as "" and the first such error  *)
(*            is returned after the whole array was decoded                *)
(***************************************************************************)
JsonStr(s) == [t |-> "str", v |-> s]
JsonNum == [t |-> "num"]
JsonElems == {JsonStr("u:1"), JsonStr("v:2"), JsonNum}

RECURSIVE SeqsUpTo(_, _)
SeqsUpTo(S, n) ==
    IF n = 0 THEN {<<>>}
    ELSE LET shorter == SeqsUpTo(S, n - 1)
         IN  shorter \cup {Append(s, x) : s \in {t \in shorter : Len(t) = n - 1}, x \in S}

JsonTexts ==
    {[kind |-> "empty"], [kind |-> "syntax"], [kind |-> "scalar"]}
    \cup {[kind |-> "array", elems |-> e] : e \in SeqsUpTo(JsonElems, MaxEntries)}

\* docker.Env.GetJSON("HTPASSWD", &entries) on entries = []string{}
GetJSON(env, key) ==
    IF ~EnvHas(env, key) \/ env[key].kind = "empty"
    THEN [entries |-> <<>>, err |-> FALSE]
    ELSE IF env[key].kind \in {"syntax", "scalar"}
    THEN [entries |-> <<>>, err |-> TRUE]
    ELSE LET e == env[key].elems
         IN  [entries |-> [i \in 1..Len(e) |-> IF e[i].t = "str" THEN e[i].v ELSE ""],
              err |-> \E i \in 1..Len(e) : e[i].t # "str"]

(***************************************************************************)
(* The certificate directory.                                              *)
(***************************************************************************)
\* certificate names whose path exceeds NAME_MAX: os.Stat fails with
\* ENAMETOOLONG, which os.IsNotExist does not recognise; no such file exists
TooLongNames == {"long"}
CertFiles == {<<"c", "crt">>, <<"c", "key">>}

\* os.Stat("/etc/nginx/ssl.d/<name>.<ext>"): "ok", "notexist" or "other"
Stat(ssl, name, ext) ==
    IF name \in TooLongNames THEN "other"
    ELSE IF <<name, ext>> \in ssl THEN "ok"
    ELSE "notexist"

\* os.IsNotExist(err) on the error of os.Stat
IsNotExist(st) == st = "notexist"

(***************************************************************************)
(* getExistingContainers (autoproxy.go 489-595).                           *)
(***************************************************************************)
\* the containerConfig built at lines 582-589
ContainerConfig(name, vHost, ip, port, sslCertName, entries) ==
    [Name |-> name, VHost |-> vHost, ContainerIP |-> ip, ContainerPort |-> port,
     SSLCertName |-> sslCertName, HtpasswdEntries |-> entries]

\* port resolution that prefers a single exposed port to VIRTUAL_PORT
ResolvePortExposedFirst(env, ports) ==
    IF Cardinality(ports) = 1
    THEN [skip |-> FALSE, port |-> PortOf(CHOOSE k \in ports : TRUE)]
    ELSE IF EnvHas(env, "VIRTUAL_PORT")
    THEN [skip |-> FALSE, port |-> env["VIRTUAL_PORT"]]
    ELSE [skip |-> TRUE, port |-> ""]

\* lines 526-546: [skip |-> TRUE], or the port of the endpoint
ResolvePort(env, ports) ==
    IF EnvHas(env, "VIRTUAL_PORT")
    THEN [skip |-> FALSE, port |-> env["VIRTUAL_PORT"]]
    ELSE IF Cardinality(ports) > 1 \/ Cardinality(ports) = 0
    THEN [skip |-> TRUE, port |-> ""]
    ELSE [skip |-> FALSE, port |-> PortOf(CHOOSE k \in ports : TRUE)]

\* lines 551-570: SSL_CERT_NAME, cleared when the certificate or the key
\* is reported missing
ResolveSSLCertName(env, ssl) ==
    LET name0 == EnvGet(env, "SSL_CERT_NAME")
        name1 == IF name0 # "" /\ IsNotExist(Stat(ssl, name0, "crt")) THEN "" ELSE name0
        name2 == IF name1 # "" /\ IsNotExist(Stat(ssl, name1, "key")) THEN "" ELSE name1
    IN  name2

\* the loop body without the VIRTUAL_HOST test of lines 513-519
InspectOneAnyHost(c, ssl) ==
    IF c.inspectErr THEN <<>>
    ELSE LET p == ResolvePort(c.env, c.ports)
         IN  IF p.skip THEN <<>>
             ELSE << ContainerConfig(TrimLeft(c.name, {"/"}),
                                     EnvGet(c.env, "VIRTUAL_HOST"),
                                     c.ip,
                                     p.port,
                                     ResolveSSLCertName(c.env, ssl),
                                     GetJSON(c.env, "HTPASSWD").entries) >>

\* the loop body without the `continue` of lines 502-506: a container whose
\* inspection failed is handled as an inspected one
InspectOneIgnoringError(c, ssl) ==
    IF ~EnvHas(c.env, "VIRTUAL_HOST") THEN <<>>
    ELSE LET p == ResolvePort(c.env, c.ports)
         IN  IF p.skip THEN <<>>
             ELSE << ContainerConfig(TrimLeft(c.name, {"/"}),
                                     c.env["VIRTUAL_HOST"],
                                     c.ip,
                                     p.port,
                                     ResolveSSLCertName(c.env, ssl),
                                     GetJSON(c.env, "HTPASSWD").entries) >>

\* the loop body testing VIRTUAL_HOST with env.Get: an empty value skips
InspectOneNonEmptyHost(c, ssl) ==
    IF c.inspectErr THEN <<>>
    ELSE IF EnvGet(c.env, "VIRTUAL_HOST") = "" THEN <<>>
    ELSE LET p == ResolvePort(c.env, c.ports)
         IN  IF p.skip THEN <<>>
             ELSE << ContainerConfig(TrimLeft(c.name, {"/"}),
                                     c.env["VIRTUAL_HOST"],
                                     c.ip,
                                     p.port,
                                     ResolveSSLCertName(c.env, ssl),
                                     GetJSON(c.env, "HTPASSWD").entries) >>

\* the body of the loop at lines 500-592 for one listed container c:
\* the endpoints it appends to `containers` (none after a `continue`)
InspectOne(c, ssl) ==
    IF c.inspectErr THEN <<>>
    ELSE IF ~EnvHas(c.env, "VIRTUAL_HOST") THEN <<>>
    ELSE LET p == ResolvePort(c.env, c.ports)
         IN  IF p.skip THEN <<>>
             ELSE << ContainerConfig(TrimLeft(c.name, {"/"}),
                                     c.env["VIRTUAL_HOST"],
                                     c.ip,
                                     p.port,
                                     ResolveSSLCertName(c.env, ssl),
                                     GetJSON(c.env, "HTPASSWD").entries) >>

RECURSIVE InspectAll(_, _)
\* the loop at lines 500-592 over the listed containers, in listing order
InspectAll(list, ssl) ==
    IF list = <<>> THEN <<>>
    ELSE InspectOne(Head(list), ssl) \o InspectAll(Tail(list), ssl)

\* getExistingContainers that returns the error of a failed inspection
getNoContainersOnInspectError(api, ssl) ==
    IF api.listErr \/ \E i \in 1..Len(api.list) : api.list[i].inspectErr
    THEN [ccs |-> <<>>, err |-> TRUE]
    ELSE [ccs |-> InspectAll(api.list, ssl), err |-> FALSE]

\* getExistingContainers that takes a failed listing for an empty one
getNoContainersOnError(api, ssl) ==
    IF api.listErr THEN [ccs |-> <<>>, err |-> FALSE]
    ELSE [ccs |-> InspectAll(api.list, ssl), err |-> FALSE]

\* getExistingContainers: api is the answer of client.ListContainers
\* (listErr: the call failed) with what InspectContainer returns for each
getExistingContainers(api, ssl) ==
    IF api.listErr THEN [ccs |-> <<>>, err |-> TRUE]
    ELSE [ccs |-> InspectAll(api.list, ssl), err |-> FALSE]

(***************************************************************************)
(* Inputs of getExistingContainers.                                        *)
(***************************************************************************)
ExposedPorts == {ExposedPort(n) : n \in 1..MaxPorts}

Detail(n, inspectErr, env, ports) ==
    [name |-> ApiName(n), inspectErr |-> inspectErr, env |-> env, ports |-> ports,
     ip |-> "10.0.0.1"]

\* the values each variable of a container's environment is drawn from
VHostValues == {NotSet, Set(""), Set("h.com")}
VPortValues == {NotSet, Set(""), Set("8080")}
SSLValues == {NotSet, Set(""), Set("c"), Set("long")}
HtpasswdValues == {NotSet} \cup {Set(j) : j \in JsonTexts}

\* the containers the polling loop is run on
PlainEnv == EnvOf(Set("h.com"), NotSet, NotSet, NotSet)
FullEnv == EnvOf(Set("h.com"), Set("8080"), Set("c"),
                 Set([kind |-> "array", elems |-> <<JsonStr("u:1"), JsonStr("v:2")>>]))
NoVHostEnv == EnvOf(NotSet, Set("8080"), Set("c"),
                    Set([kind |-> "array", elems |-> <<JsonStr("u:1")>>]))
EmptyEnv == EnvOf(NotSet, NotSet, NotSet, NotSet)

CycleDetails(n) ==
    { Detail(n, FALSE, PlainEnv, {ExposedPort(1)}),
      Detail(n, FALSE, FullEnv, ExposedPorts),
      Detail(n, FALSE, NoVHostEnv, {ExposedPort(1)}),
      Detail(n, FALSE, EmptyEnv, ExposedPorts),
      Detail(n, FALSE, PlainEnv, ExposedPorts),
      Detail(n, TRUE, FullEnv, ExposedPorts) }

\* file names in listing order of ioutil.ReadDir (sorted by name)
NameOrder == << <<"a">>, <<"b">> >>

RECURSIVE ListingsOf(_, _)
\* the listings that take, in the order of `names`, none or one container
\* of D[n] for each name n
ListingsOf(names, D) ==
    IF names = <<>> THEN {<<>>}
    ELSE LET rest == ListingsOf(Tail(names), D)
         IN  rest \cup {<<d>> \o r : d \in D[Head(names)], r \in rest}

Api(list) == [listErr |-> FALSE, list |-> list]

\* the names, without the slash, of the containers an answer lists
ListedNames(api) == {TrimLeft(api.list[i].name, {"/"}) : i \in 1..Len(api.list)}
ListError == [listErr |-> TRUE, list |-> <<>>]

\* answers of the docker API in the polling loop
CycleApis == {Api(l) : l \in ListingsOf(NameOrder, [n \in BaseNames |-> CycleDetails(n)])} \cup {ListError}

(***************************************************************************)
(* Files.  A directory is a function from file names to files; the I/O     *)
(* error of a pass, if any, is its `fault`: the kind of call that fails    *)
(* and the index (in the endpoint list or in the directory listing) of     *)
(* the element at which it fails.                                          *)
(***************************************************************************)
FileNames == {TrimLeft(ApiName(n), {"/"}) : n \in BaseNames}

NoFile == [exists |-> FALSE]
File(data) == [exists |-> TRUE, data |-> data]

\* a file that is not the work of this program
Old == [kind |-> "text", text |-> "old"]
\* what a failed ioutil.WriteFile leaves: the file truncated, not all written
Partial == [kind |-> "partial"]

NoFault == [at |-> 0, kind |-> "none"]
FaultAt(fault, i) == IF fault.at = i THEN fault.kind ELSE "none"

\* what template.Execute writes for cc: any field may appear in it
Render(cc) == [kind |-> "conf", cc |-> cc]

\* the entries written as lines, each one ended by a newline
HtpasswdLines(cc) == [kind |-> "text", text |-> Join(cc.HtpasswdEntries, "\n") \o "\n"]

\* line 801: []byte(strings.Join(cc.HtpasswdEntries, "\n"))
HtpasswdContent(cc) == [kind |-> "text", text |-> Join(cc.HtpasswdEntries, "\n")]

\* result of a writer or remover: the directory after it, its two return
\* values, and whether it touched the file
Result(dir, changed, e, touched) ==
    [dir |-> dir, changed |-> changed, err |-> e, touched |-> touched]

\* writeIfChanged without the comparison: the file is written every time
writeAlways(dir, path, content, fault) ==
    CASE fault = "open" -> Result(dir, TRUE, TRUE, FALSE)
      [] fault = "write" -> Result([dir EXCEPT ![path] = File(Partial)], TRUE, TRUE, TRUE)
      [] OTHER -> Result([dir EXCEPT ![path] = File(content)], TRUE, FALSE, TRUE)

\* writeIfChanged that leaves every existing file as it is
writeIfAbsent(dir, path, content, fault) ==
    IF dir[path].exists THEN Result(dir, FALSE, FALSE, FALSE)
    ELSE CASE fault = "open" -> Result(dir, TRUE, TRUE, FALSE)
           [] fault = "write" ->
                Result([dir EXCEPT ![path] = File(Partial)], TRUE, TRUE, TRUE)
           [] OTHER ->
                Result([dir EXCEPT ![path] = File(content)], TRUE, FALSE, TRUE)

\* writeIfChanged that returns the error of os.Stat instead of taking the
\* file for a missing one
writeIfStatSucceeds(dir, path, content, fault) ==
    IF dir[path].exists /\ fault = "stat" THEN Result(dir, FALSE, TRUE, FALSE)
    ELSE IF dir[path].exists /\ fault = "read" THEN Result(dir, FALSE, TRUE, FALSE)
    ELSE IF ~dir[path].exists \/ dir[path].data # content
    THEN CASE fault = "open" -> Result(dir, TRUE, TRUE, FALSE)
           [] fault = "write" ->
                Result([dir EXCEPT ![path] = File(Partial)], TRUE, TRUE, TRUE)
           [] OTHER ->
                Result([dir EXCEPT ![path] = File(content)], TRUE, FALSE, TRUE)
    ELSE Result(dir, FALSE, FALSE, FALSE)

\* writeIfChanged (lines 711-735).  fault is the call that fails: "stat"
\* (os.Stat returns an error for a file that is there: line 716 only asks
\* whether err is nil), "read" (ioutil.ReadFile), "open" (ioutil.WriteFile
\* before it truncated the file) or "write" (ioutil.WriteFile after it)
writeIfChanged(dir, path, content, fault) ==
    LET fileExists == dir[path].exists /\ fault # "stat"
        contentChanged == fileExists /\ dir[path].data # content
    IN  IF fileExists /\ fault = "read"
        THEN Result(dir, FALSE, TRUE, FALSE)
        ELSE IF ~fileExists \/ contentChanged
        THEN CASE fault = "open" -> Result(dir, TRUE, TRUE, FALSE)
               [] fault = "write" ->
                    Result([dir EXCEPT ![path] = File(Partial)], TRUE, TRUE, TRUE)
               [] OTHER ->
                    Result([dir EXCEPT ![path] = File(content)], TRUE, FALSE, TRUE)
        ELSE Result(dir, FALSE, FALSE, FALSE)

\* writeNewConfigFile that returns an error when template.Execute fails
writeNewConfigFileOrFail(dir, cc, fault, exec) ==
    IF fault = "parse" THEN Result(dir, FALSE, TRUE, FALSE)
    ELSE IF cc.Name \in exec THEN Result(dir, FALSE, TRUE, FALSE)
    ELSE writeIfChanged(dir, cc.Name, Render(cc), fault)

\* writeNewConfigFile (lines 741-761); exec: the names template.Execute fails on
writeNewConfigFile(dir, cc, fault, exec) ==
    IF fault = "parse" THEN Result(dir, FALSE, TRUE, FALSE)
    ELSE IF cc.Name \in exec THEN Result(dir, FALSE, FALSE, FALSE)
    ELSE writeIfChanged(dir, cc.Name, Render(cc), fault)

\* writeNewHtpasswdFile without the test of line 797
writeEmptyHtpasswdFile(dir, cc, fault) ==
    writeIfChanged(dir, cc.Name, HtpasswdContent(cc), fault)

\* writeNewHtpasswdFile (lines 793-803)
writeNewHtpasswdFile(dir, cc, fault) ==
    IF Len(cc.HtpasswdEntries) = 0 THEN Result(dir, FALSE, FALSE, FALSE)
    ELSE writeIfChanged(dir, cc.Name, HtpasswdContent(cc), fault)

\* the cfWriter f applied to one endpoint
cfWriter(f, dir, cc, fault, exec) ==
    IF f = "conf" THEN writeNewConfigFile(dir, cc, fault, exec)
    ELSE writeNewHtpasswdFile(dir, cc, fault)

\* result of a pass: as Result, with the set of names it touched
Pass(dir, changed, e, touched) ==
    [dir |-> dir, changed |-> changed, err |-> e, touched |-> touched]

RECURSIVE writeLoop(_, _, _, _, _, _)
\* the loop of writeNewFiles (lines 777-786) from element i on
writeLoop(f, ccs, i, acc, fault, exec) ==
    IF i > Len(ccs) THEN acc
    ELSE LET r == cfWriter(f, acc.dir, ccs[i], FaultAt(fault, i), exec)
             touched == IF r.touched THEN acc.touched \cup {ccs[i].Name} ELSE acc.touched
         IN  IF r.err
             THEN Pass(r.dir, FALSE, TRUE, touched)
             ELSE writeLoop(f, ccs, i + 1,
                            Pass(r.dir, acc.changed \/ r.changed, FALSE, touched),
                            fault, exec)

\* writeNewFiles (lines 766-788)
writeNewFiles(f, dir, ccs, fault, exec) ==
    IF fault.kind = "mkdir" THEN Pass(dir, FALSE, TRUE, {})
    ELSE writeLoop(f, ccs, 1, Pass(dir, FALSE, FALSE, {}), fault, exec)

\* removeIfRedundant whose loop returns at its first endpoint, match or not
removeIfNoEndpoint(dir, fname, rcs, fault) ==
    IF rcs # <<>>
    THEN Result(dir, FALSE, FALSE, FALSE)
    ELSE IF fault = "remove"
    THEN Result(dir, TRUE, TRUE, FALSE)
    ELSE Result([dir EXCEPT ![fname] = NoFile], TRUE, FALSE, TRUE)

\* removeIfRedundant comparing the file name with the first endpoint only
removeIfNotFirst(dir, fname, rcs, fault) ==
    IF rcs # <<>> /\ fname = rcs[1].Name
    THEN Result(dir, FALSE, FALSE, FALSE)
    ELSE IF fault = "remove"
    THEN Result(dir, TRUE, TRUE, FALSE)
    ELSE Result([dir EXCEPT ![fname] = NoFile], TRUE, FALSE, TRUE)

\* removeIfRedundant (lines 664-677)
removeIfRedundant(dir, fname, rcs, fault) ==
    IF \E i \in 1..Len(rcs) : fname = rcs[i].Name
    THEN Result(dir, FALSE, FALSE, FALSE)
    ELSE IF fault = "remove"
    THEN Result(dir, TRUE, TRUE, FALSE)
    ELSE Result([dir EXCEPT ![fname] = NoFile], TRUE, FALSE, TRUE)

RECURSIVE removeLoop(_, _, _, _, _)
\* the loop of removeOldFiles (lines 695-703) from element i on
removeLoop(dirContents, ccs, i, acc, fault) ==
    IF i > Len(dirContents) THEN acc
    ELSE LET r == removeIfRedundant(acc.dir, dirContents[i], ccs, FaultAt(fault, i))
             touched == IF r.touched THEN acc.touched \cup {dirContents[i]}
                        ELSE acc.touched
         IN  IF r.err
             THEN Pass(r.dir, FALSE, TRUE, touched)
             ELSE removeLoop(dirContents, ccs, i + 1,
                             Pass(r.dir, acc.changed \/ r.changed, FALSE, touched),
                             fault)

\* ioutil.ReadDir: the names of the files of dir, sorted
ReadDir(dir) == SelectSeq(NameOrder, LAMBDA n : dir[n].exists)

\* removeOldFiles that deletes and reports no change
removeOldFilesUnreported(dir, ccs, fault) ==
    IF fault.kind = "readdir" THEN Pass(dir, FALSE, TRUE, {})
    ELSE LET r == removeLoop(ReadDir(dir), ccs, 1, Pass(dir, FALSE, FALSE, {}), fault)
         IN  Pass(r.dir, FALSE, r.err, r.touched)

\* removeOldFiles (lines 681-706)
removeOldFiles(dir, ccs, fault) ==
    IF fault.kind = "readdir" THEN Pass(dir, FALSE, TRUE, {})
    ELSE removeLoop(ReadDir(dir), ccs, 1, Pass(dir, FALSE, FALSE, {}), fault)

\* the calls of writeIfChanged that may fail (lines 716, 718, 732)
WriteIfChangedFaults == {"none", "stat", "read", "open", "write"}

\* the faults a write pass over ccs may meet in the polling loop, and a
\* remove pass over dir; in the loop os.Stat reports every file that is there
WriteFaults(ccs) ==
    {NoFault, [at |-> 0, kind |-> "mkdir"]}
    \cup {[at |-> i, kind |-> k] : i \in 1..Len(ccs), k \in {"parse", "read", "open", "write"}}
RemoveFaults(dir) ==
    {NoFault, [at |-> 0, kind |-> "readdir"]}
    \cup {[at |-> i, kind |-> "remove"] : i \in 1..Len(ReadDir(dir))}

(***************************************************************************)
(* reloadNginxConfiguration (lines 643-660).                               *)
(***************************************************************************)
FailMarker == <<"f", "a", "i", "l">>

\* reloadNginxConfiguration trusting the exit code
reloadByExitCode(exit, output) == exit # 0

\* TRUE when an error is returned: exit is the exit code of `nginx -s reload`
\* and output its combined output
reloadNginxConfiguration(exit, output) ==
    IF exit # 0 THEN TRUE
    ELSE Contains(output, FailMarker)

ExitCodes == {0, 1}
OutChars == {"f", "a", "i", "l", "F"}
\* every output of at most MaxOut characters
AllOutputs == SeqsUpTo(OutChars, MaxOut)
\* outputs of the reload command in the polling loop
CycleOutputs == {<<>>, FailMarker}

(***************************************************************************)
(* main (lines 599-626) and configureAndReload (lines 422-476).            *)
(***************************************************************************)
\* reloadRequired kept from one call of configureAndReload to the next
KeptReloadRequired(prev) == prev

\* line 425: var reloadRequired bool; prev is what an earlier call left
InitialReloadRequired(prev) == FALSE

\* reloadRequired = changed: a later pass without change clears the flag
LastChange(required, changed) == changed

\* lines 433-435, 443-445, 454-456, 463-465: if changed { reloadRequired = true }
NoteChange(required, changed) == IF changed THEN TRUE ELSE required

\* line 469: if reloadRequired
ReloadDue(required) == required

\* an error that is logged, after which main goes on
logOnError(e, next) == next

\* lines 430-432, 440-442, 451-453, 460-462 and 472-474 (return err) with
\* exitOnError (lines 480-484, called at 615 and 619): the step main takes
\* next, os.Exit(1) when e is an error
exitOnError(e, next) == IF e THEN "exited" ELSE next

\* the cycle in which the process run before this one ended, until this run
\* completes a cycle (is); restarts counts the runs that ended so far
Interruption(is, conf, ht, ccs, restarts) ==
    [is |-> is, conf |-> conf, ht |-> ht, ccs |-> ccs, restarts |-> restarts]
Uninterrupted(restarts) ==
    Interruption(FALSE, [n \in FileNames |-> NoFile], [n \in FileNames |-> NoFile],
                 <<>>, restarts)
NoInterruption == Uninterrupted(0)

\* lines 614-615: getExistingContainers and exitOnError
Discover(api) ==
    /\ pc = "discover"
    /\ LET r == getExistingContainers(api, sslDir)
       IN  /\ apiContainers' = api
           /\ started' = ListedNames(api) \ ListedNames(apiContainers)
           /\ pc' = exitOnError(r.err, "writeConf")
           /\ IF r.err
              THEN /\ err' = "list"
                   /\ containers' = containers
                   /\ same' = FALSE
              ELSE /\ err' = err
                   /\ containers' = r.ccs
                   /\ same' = (completed /\ r.ccs = containers)
    /\ confBefore' = confDir
    /\ htBefore' = htDir
    /\ wrote' = {}
    /\ removed' = {}
    /\ reloads' = 0
    /\ cmdExit' = 0
    /\ cmdOutput' = <<>>
    /\ reloadErr' = FALSE
    /\ UNCHANGED <<confDir, htDir, sslDir, execErr, reloadRequired, completed,
                   unloaded, interrupted, uninspected>>

\* the configuration directory reconciled in one step: its writes, then the
\* deletion of its stale files, before the credentials directory is touched
SyncConfigFiles ==
    /\ pc = "writeConf"
    /\ \E fault \in WriteFaults(containers) :
         LET w == writeNewFiles("conf", confDir, containers, fault, execErr)
             r == IF w.err THEN Pass(w.dir, FALSE, TRUE, {})
                  ELSE removeOldFiles(w.dir, containers, NoFault)
             required == InitialReloadRequired(reloadRequired)
         IN  /\ confDir' = r.dir
             /\ wrote' = wrote \cup {<<"conf", n>> : n \in w.touched}
             /\ removed' = removed \cup {<<"conf", n>> : n \in r.touched}
             /\ reloadRequired' = NoteChange(NoteChange(required, w.changed), r.changed)
             /\ pc' = exitOnError(w.err, "writeHt")
             /\ err' = IF w.err THEN "writeConf" ELSE err
    /\ UNCHANGED <<apiContainers, containers, htDir, sslDir, execErr, completed, same,
                   started, confBefore, htBefore, reloads, cmdExit, cmdOutput,
                   reloadErr, unloaded, interrupted, uninspected>>

\* lines 425-435: writeNewFiles(writeNewConfigFile, nginxConfigDir, ccs)
WriteConfigFiles ==
    /\ pc = "writeConf"
    /\ \E fault \in WriteFaults(containers) :
         LET r == writeNewFiles("conf", confDir, containers, fault, execErr)
             required == InitialReloadRequired(reloadRequired)
         IN  /\ confDir' = r.dir
             /\ wrote' = wrote \cup {<<"conf", n>> : n \in r.touched}
             /\ reloadRequired' = NoteChange(required, r.changed)
             /\ pc' = exitOnError(r.err, "writeHt")
             /\ err' = IF r.err THEN "writeConf" ELSE err
    /\ UNCHANGED <<apiContainers, containers, htDir, sslDir, execErr, completed, same,
                   started, confBefore, htBefore, removed, reloads, cmdExit, cmdOutput,
                   reloadErr, unloaded, interrupted, uninspected>>

\* lines 439-445: writeNewFiles(writeNewHtpasswdFile, nginxHtpasswdDir, ccs)
WriteHtpasswdFiles ==
    /\ pc = "writeHt"
    /\ \E fault \in WriteFaults(containers) \ {[at |-> i, kind |-> "parse"] : i \in 1..Len(containers)} :
         LET r == writeNewFiles("ht", htDir, containers, fault, execErr)
         IN  /\ htDir' = r.dir
             /\ wrote' = wrote \cup {<<"ht", n>> : n \in r.touched}
             /\ reloadRequired' = NoteChange(reloadRequired, r.changed)
             /\ pc' = exitOnError(r.err, "rmConf")
             /\ err' = IF r.err THEN "writeHt" ELSE err
    /\ UNCHANGED <<apiContainers, containers, confDir, sslDir, execErr, completed, same,
                   started, confBefore, htBefore, removed, reloads, cmdExit, cmdOutput,
                   reloadErr, unloaded, interrupted, uninspected>>

\* lines 450-456: removeOldFiles(nginxConfigDir, ccs)
RemoveConfigFiles ==
    /\ pc = "rmConf"
    /\ \E fault \in RemoveFaults(confDir) :
         LET r == removeOldFiles(confDir, containers, fault)
         IN  /\ confDir' = r.dir
             /\ removed' = removed \cup {<<"conf", n>> : n \in r.touched}
             /\ reloadRequired' = NoteChange(reloadRequired, r.changed)
             /\ pc' = exitOnError(r.err, "rmHt")
             /\ err' = IF r.err THEN "rmConf" ELSE err
    /\ UNCHANGED <<apiContainers, containers, htDir, sslDir, execErr, completed, same,
                   started, confBefore, htBefore, wrote, reloads, cmdExit, cmdOutput,
                   reloadErr, unloaded, interrupted, uninspected>>

\* lines 459-465: removeOldFiles(nginxHtpasswdDir, ccs)
RemoveHtpasswdFiles ==
    /\ pc = "rmHt"
    /\ \E fault \in RemoveFaults(htDir) :
         LET r == removeOldFiles(htDir, containers, fault)
         IN  /\ htDir' = r.dir
             /\ removed' = removed \cup {<<"ht", n>> : n \in r.touched}
             /\ reloadRequired' = NoteChange(reloadRequired, r.changed)
             /\ pc' = exitOnError(r.err, "reload")
             /\ err' = IF r.err THEN "rmHt" ELSE err
    /\ UNCHANGED <<apiContainers, containers, confDir, sslDir, execErr, completed, same,
                   started, confBefore, htBefore, wrote, reloads, cmdExit, cmdOutput,
                   reloadErr, unloaded, interrupted, uninspected>>

\* lines 469-475 and 619: the reload, when required, and exitOnError
Reload(outputs) ==
    /\ pc = "reload"
    /\ IF ReloadDue(reloadRequired)
       THEN \E exit \in ExitCodes, output \in outputs :
              LET e == reloadNginxConfiguration(exit, output)
              IN  /\ cmdExit' = exit
                  /\ cmdOutput' = output
                  /\ reloadErr' = e
                  /\ reloads' = reloads + 1
                  /\ unloaded' = FALSE
                  /\ pc' = exitOnError(e, "sleep")
                  /\ err' = IF e THEN "reload" ELSE err
       ELSE /\ pc' = "sleep"
            /\ UNCHANGED <<cmdExit, cmdOutput, reloadErr, reloads, err, unloaded>>
    /\ UNCHANGED <<apiContainers, containers, confDir, htDir, sslDir, execErr,
                   reloadRequired, completed, same, started, confBefore, htBefore,
                   wrote, removed, interrupted, uninspected>>

\* the endpoint that the listed container c yields when it is inspected
Inspected(c) == InspectOne([c EXCEPT !.inspectErr = FALSE], sslDir)

\* the files of the endpoint of c, as this program writes them, were on disk
\* when the current cycle began
HadArtifacts(c) ==
    /\ Inspected(c) # <<>>
    /\ LET e == Inspected(c)[1]
       IN  /\ confBefore[e.Name] = File(Render(e))
           /\ Len(e.HtpasswdEntries) > 0 => htBefore[e.Name] = File(HtpasswdContent(e))

\* the containers of the current listing whose inspection failed, and the
\* API names of those whose inspection succeeded
FailedInspections ==
    {apiContainers.list[i] : i \in {j \in 1..Len(apiContainers.list) :
                                        apiContainers.list[j].inspectErr}}
InspectedNames ==
    {apiContainers.list[i].name : i \in {j \in 1..Len(apiContainers.list) :
                                             ~apiContainers.list[j].inspectErr}}

\* main that returns after the first cycle instead of looping
ReturnAfterCycle ==
    /\ pc = "sleep"
    /\ pc' = "exited"
    /\ completed' = TRUE
    /\ UNCHANGED <<err, apiContainers, containers, confDir, htDir, sslDir, execErr,
                   reloadRequired, same, started, confBefore, htBefore, wrote, removed,
                   reloads, cmdExit, cmdOutput, reloadErr, unloaded, interrupted, uninspected>>

\* line 623: time.Sleep, then the next iteration
Sleep ==
    /\ pc = "sleep"
    /\ pc' = "discover"
    /\ completed' = TRUE
    /\ interrupted' = Uninterrupted(interrupted.restarts)
    /\ uninspected' = {c \in uninspected : c.name \notin InspectedNames}
                         \cup {c \in FailedInspections : HadArtifacts(c)}
    /\ UNCHANGED <<err, apiContainers, containers, confDir, htDir, sslDir, execErr,
                   reloadRequired, same, started, confBefore, htBefore,
                   wrote, removed, reloads, cmdExit, cmdOutput, reloadErr, unloaded>>

\* the state of main before its first iteration, but for the directories
Start ==
    /\ pc = "discover"
    /\ err = "nil"
    /\ apiContainers = Api(<<>>)
    /\ containers = <<>>
    /\ reloadRequired = FALSE
    /\ completed = FALSE
    /\ same = FALSE
    /\ started = {}
    /\ wrote = {}
    /\ removed = {}
    /\ reloads = 0
    /\ cmdExit = 0
    /\ cmdOutput = <<>>
    /\ reloadErr = FALSE
    /\ unloaded = FALSE
    /\ interrupted = NoInterruption
    /\ uninspected = {}

\* the polling loop, from any content of the two directories
Init ==
    /\ Start
    /\ confDir \in [FileNames -> {NoFile, File(Old)}]
    /\ htDir \in [FileNames -> {NoFile, File(Old)}]
    /\ confBefore = confDir
    /\ htBefore = htDir
    /\ sslDir = CertFiles
    /\ execErr \in SUBSET FileNames

Next ==
    \/ \E api \in CycleApis : Discover(api)
    \/ WriteConfigFiles
    \/ WriteHtpasswdFiles
    \/ RemoveConfigFiles
    \/ RemoveHtpasswdFiles
    \/ Reload(CycleOutputs)
    \/ Sleep

Spec == Init /\ [][Next]_vars

\* the loop of main with its scheduling, started on directories that hold
\* a foreign file under every name, with a template that renders: one
\* thread, every call of a step returns, so a step that can be taken is taken
InitLive ==
    /\ Start
    /\ confDir = [n \in FileNames |-> File(Old)]
    /\ htDir = [n \in FileNames |-> File(Old)]
    /\ confBefore = confDir
    /\ htBefore = htDir
    /\ sslDir = CertFiles
    /\ execErr = {}

SpecLive == InitLive /\ [][Next]_vars /\ WF_vars(Next)

\* the process is ended by a signal between two steps of main.  (A signal
\* inside a pass leaves the directory as an I/O error at the same place
\* does: the files before it handled, the file at it untouched or, inside
\* ioutil.WriteFile, truncated.)
Kill ==
    /\ pc # "exited"
    /\ pc' = "exited"
    /\ err' = "signal"
    /\ UNCHANGED <<apiContainers, containers, confDir, htDir, sslDir, execErr,
                   reloadRequired, completed, same, started, confBefore, htBefore,
                   wrote, removed, reloads, cmdExit, cmdOutput, reloadErr,
                   unloaded, interrupted, uninspected>>

\* the process is started again after it ended (lines 599-612): main begins
\* anew on the directories as the ended run left them
Restart ==
    /\ pc = "exited"
    /\ interrupted.restarts < MaxRestarts
    /\ pc' = "discover"
    /\ err' = "nil"
    /\ apiContainers' = Api(<<>>)
    /\ containers' = <<>>
    /\ reloadRequired' = FALSE
    /\ completed' = FALSE
    /\ same' = FALSE
    /\ started' = {}
    /\ confBefore' = confDir
    /\ htBefore' = htDir
    /\ wrote' = {}
    /\ removed' = {}
    /\ reloads' = 0
    /\ cmdExit' = 0
    /\ cmdOutput' = <<>>
    /\ reloadErr' = FALSE
    /\ unloaded' = (unloaded \/ ((wrote # {} \/ removed # {}) /\ reloads = 0))
    /\ interrupted' = Interruption(TRUE, confBefore, htBefore, containers,
                                   interrupted.restarts + 1)
    /\ uninspected' = {}
    /\ UNCHANGED <<confDir, htDir, sslDir, execErr>>

\* the containers of the runs that are ended and started again: "a" without
\* or with credentials, "b" without
RestartDetails(n) ==
    IF n = <<"a">>
    THEN { Detail(n, FALSE, PlainEnv, {ExposedPort(1)}),
           Detail(n, FALSE, FullEnv, ExposedPorts) }
    ELSE { Detail(n, FALSE, PlainEnv, {ExposedPort(1)}) }

RestartApis ==
    {Api(l) : l \in ListingsOf(NameOrder, [n \in BaseNames |-> RestartDetails(n)])}
    \cup {ListError}

NextRestart ==
    \/ \E api \in RestartApis : Discover(api)
    \/ WriteConfigFiles
    \/ WriteHtpasswdFiles
    \/ RemoveConfigFiles
    \/ RemoveHtpasswdFiles
    \/ Reload(CycleOutputs)
    \/ Sleep
    \/ Kill
    \/ Restart

\* the polling loop with its process ended and started again at any time
SpecRestart == Init /\ [][NextRestart]_vars

\* getExistingContainers alone, on every answer of the docker API and every
\* content of the certificate directory
InitInventory ==
    /\ Start
    /\ confDir = [n \in FileNames |-> NoFile]
    /\ htDir = [n \in FileNames |-> NoFile]
    /\ confBefore = confDir
    /\ htBefore = htDir
    /\ sslDir \in SUBSET CertFiles
    /\ execErr = {}

\* one container of any environment, exposed ports and inspection outcome
DiscoverOne ==
    /\ pc = "discover"
    /\ \E n \in BaseNames, ie \in BOOLEAN, ports \in SUBSET ExposedPorts,
          vh \in VHostValues, vp \in VPortValues, ssl \in SSLValues,
          ht \in HtpasswdValues :
         Discover(Api(<<Detail(n, ie, EnvOf(vh, vp, ssl, ht), ports)>>))

\* two containers of the polling loop, listed in either order
DiscoverTwo ==
    /\ pc = "discover"
    /\ \E d1 \in CycleDetails(<<"a">>), d2 \in CycleDetails(<<"b">>) :
         \E l \in {<<d1, d2>>, <<d2, d1>>} : Discover(Api(l))

NextInventory ==
    \/ DiscoverOne
    \/ DiscoverTwo
    \/ Discover(ListError)

SpecInventory == InitInventory /\ [][NextInventory]_vars

\* reloadNginxConfiguration alone, on every exit code and output
InitReload ==
    /\ pc = "reload"
    /\ err = "nil"
    /\ apiContainers = Api(<<>>)
    /\ containers = <<>>
    /\ reloadRequired = TRUE
    /\ completed = FALSE
    /\ same = FALSE
    /\ started = {}
    /\ wrote = {}
    /\ removed = {}
    /\ reloads = 0
    /\ cmdExit = 0
    /\ cmdOutput = <<>>
    /\ reloadErr = FALSE
    /\ unloaded = FALSE
    /\ interrupted = NoInterruption
    /\ uninspected = {}
    /\ confDir = [n \in FileNames |-> NoFile]
    /\ htDir = [n \in FileNames |-> NoFile]
    /\ confBefore = confDir
    /\ htBefore = htDir
    /\ sslDir = CertFiles
    /\ execErr = {}

NextReload == Reload(AllOutputs)

SpecReload == InitReload /\ [][NextReload]_vars

(***************************************************************************)
(* Properties.                                                             *)
(***************************************************************************)
EndpointNames(ccs) == {ccs[i].Name : i \in 1..Len(ccs)}
Existing(dir) == {n \in FileNames : dir[n].exists}
Changed == wrote # {} \/ removed # {}

\* the listed container of name n, and the endpoint of name n
Listed(n) ==
    apiContainers.list[CHOOSE i \in 1..Len(apiContainers.list) :
                           TrimLeft(apiContainers.list[i].name, {"/"}) = n]
Endpoint(n) == containers[CHOOSE j \in 1..Len(containers) : containers[j].Name = n]

\* configureAndReload has run all four passes and the reload step
CycleRan ==
    \/ pc = "sleep"
    \/ pc = "exited" /\ err = "reload"
    \/ pc = "discover" /\ completed

\* C1: a cycle that gets the endpoint list of the completed cycle before it
\* writes no file, deletes no file, reports no change in any pass and does
\* not reload.
Idempotence ==
    same =>
        /\ wrote = {}
        /\ removed = {}
        /\ confDir = confBefore
        /\ htDir = htBefore
        /\ reloads = 0
        /\ pc # "writeConf" => ~reloadRequired

WitnessIdempotence ==
    /\ same
    /\ pc = "sleep"
    /\ Len(containers) = 2
    /\ containers[1].HtpasswdEntries # <<>>
    /\ htDir[containers[1].Name] = File(HtpasswdContent(containers[1]))
    /\ confDir[containers[2].Name] = File(Render(containers[2]))

\* C2: reload is invoked in a cycle only if a file was written or deleted in
\* that same cycle, whatever earlier cycles changed.
ReloadGating ==
    reloads > 0 => Changed /\ (confDir # confBefore \/ htDir # htBefore)

\* a cycle without change and without reload, over a file an earlier cycle wrote
WitnessReloadGating ==
    /\ pc = "sleep"
    /\ completed
    /\ ~Changed
    /\ reloads = 0
    /\ containers # <<>>
    /\ confDir[containers[1].Name] = File(Render(containers[1]))

\* C3: reload is invoked at most once per cycle, only after the four passes,
\* and, when they all finish without error, exactly once if a file was
\* written or deleted and not at all otherwise.
OneReloadPerChange ==
    /\ reloads <= 1
    /\ reloads = 1 => CycleRan
    /\ CycleRan => (reloads = 1 <=> Changed)

WitnessOneReloadPerChange ==
    /\ pc = "sleep"
    /\ reloads = 1
    /\ \E n \in FileNames : <<"ht", n>> \in wrote
    /\ \E n \in FileNames : <<"conf", n>> \in removed
    /\ confDir # confBefore

\* C4: after a cycle without error in which every endpoint renders, the files
\* of the configuration directory are exactly the endpoints' names.
GarbageCollection ==
    (pc = "sleep" /\ EndpointNames(containers) \cap execErr = {})
        => Existing(confDir) = EndpointNames(containers)

\* a stale file was deleted and the file of a new endpoint written
WitnessGarbageCollection ==
    /\ pc = "sleep"
    /\ EndpointNames(containers) \cap execErr = {}
    /\ \E n \in FileNames : <<"conf", n>> \in removed
    /\ \E n \in FileNames : <<"conf", n>> \in wrote /\ ~confBefore[n].exists

\* C5: no step deletes, in either directory, a file named as an endpoint of
\* the current cycle.
DeletionSafety ==
    [][\A n \in FileNames :
          (\/ confDir[n].exists /\ ~confDir'[n].exists
           \/ htDir[n].exists /\ ~htDir'[n].exists)
          => n \notin EndpointNames(containers)]_vars

\* a pass deleted a file while the file of a current endpoint stayed
WitnessDeletionSafety ==
    /\ pc = "reload"
    /\ \E n \in FileNames : <<"conf", n>> \in removed
    /\ \E n \in FileNames : <<"ht", n>> \in removed
    /\ \E n \in EndpointNames(containers) :
          /\ confBefore[n].exists /\ confDir[n].exists
          /\ htBefore[n].exists /\ htDir[n].exists

\* the output contains the characters f, a, i, l in a row
MarkerIn(output) ==
    \E i \in 1..Len(output) :
        /\ i + 3 <= Len(output)
        /\ output[i] = "f" /\ output[i + 1] = "a"
        /\ output[i + 2] = "i" /\ output[i + 3] = "l"

\* C6: reloadNginxConfiguration succeeds exactly when the command exits with
\* code 0 and its output does not contain "fail".
ReloadClassification ==
    reloads > 0 =>
        /\ ~reloadErr <=> (cmdExit = 0 /\ ~MarkerIn(cmdOutput))
        /\ reloadErr <=> (pc = "exited" /\ err = "reload")

\* exit code 0 with the marker inside a longer output: a failure
WitnessReloadClassification ==
    /\ reloads > 0
    /\ cmdExit = 0
    /\ Len(cmdOutput) > Len(FailMarker)
    /\ MarkerIn(cmdOutput)
    /\ reloadErr
    /\ pc = "exited"

\* C7: a listed container without VIRTUAL_HOST is not among the endpoints,
\* and no file of its name is written in that cycle.
VirtualHostExclusion ==
    \A i \in 1..Len(apiContainers.list) :
        LET c == apiContainers.list[i]
            n == TrimLeft(c.name, {"/"})
        IN  "VIRTUAL_HOST" \notin DOMAIN c.env =>
                /\ n \notin EndpointNames(containers)
                /\ <<"conf", n>> \notin wrote
                /\ <<"ht", n>> \notin wrote
                /\ confDir[n] \in {confBefore[n], NoFile}
                /\ htDir[n] \in {htBefore[n], NoFile}

\* a container with port, certificate and credentials but no VIRTUAL_HOST,
\* listed in a cycle that wrote the files of another container
WitnessVirtualHostExclusion ==
    /\ pc = "sleep"
    /\ \E i \in 1..Len(apiContainers.list) :
          LET c == apiContainers.list[i]
          IN  /\ ~c.inspectErr
              /\ "VIRTUAL_HOST" \notin DOMAIN c.env
              /\ {"VIRTUAL_PORT", "SSL_CERT_NAME", "HTPASSWD"} \subseteq DOMAIN c.env
    /\ \E n \in FileNames : <<"conf", n>> \in wrote /\ <<"ht", n>> \in wrote

\* the indices of the endpoints named as the listed container c
EndpointsOf(c) ==
    {j \in 1..Len(containers) : containers[j].Name = TrimLeft(c.name, {"/"})}

\* C8: an inspected container with VIRTUAL_HOST yields one endpoint whose
\* port is VIRTUAL_PORT when set, else the only exposed port; with
\* VIRTUAL_PORT not set and no or several exposed ports it yields none.
PortResolution ==
    (pc # "discover" /\ ~apiContainers.listErr) =>
        \A i \in 1..Len(apiContainers.list) :
            LET c == apiContainers.list[i]
                eps == EndpointsOf(c)
            IN  (~c.inspectErr /\ "VIRTUAL_HOST" \in DOMAIN c.env) =>
                    IF "VIRTUAL_PORT" \in DOMAIN c.env
                    THEN /\ Cardinality(eps) = 1
                         /\ \A j \in eps : containers[j].ContainerPort = c.env["VIRTUAL_PORT"]
                    ELSE IF Cardinality(c.ports) = 1
                    THEN /\ Cardinality(eps) = 1
                         /\ \A j \in eps : \A k \in c.ports : containers[j].ContainerPort = k.num
                    ELSE eps = {}

\* VIRTUAL_PORT wins over a single exposed port
WitnessPortResolution ==
    /\ pc = "writeConf"
    /\ Len(apiContainers.list) = 1
    /\ LET c == apiContainers.list[1]
       IN  /\ "VIRTUAL_PORT" \in DOMAIN c.env
           /\ Cardinality(c.ports) = 1
           /\ Len(containers) = 1
           /\ \A k \in c.ports : containers[1].ContainerPort # k.num

\* C9: an endpoint has a certificate name only if SSL_CERT_NAME is set to it
\* and both its .crt and its .key file exist.
SSLFallback ==
    (pc # "discover" /\ ~apiContainers.listErr) =>
        \A i \in 1..Len(apiContainers.list) :
            LET c == apiContainers.list[i]
            IN  \A j \in EndpointsOf(c) :
                    containers[j].SSLCertName # "" =>
                        /\ "SSL_CERT_NAME" \in DOMAIN c.env
                        /\ containers[j].SSLCertName = c.env["SSL_CERT_NAME"]
                        /\ <<containers[j].SSLCertName, "crt">> \in sslDir
                        /\ <<containers[j].SSLCertName, "key">> \in sslDir

\* VIRTUAL_HOST is set and the port can be resolved
Eligible(c) ==
    /\ "VIRTUAL_HOST" \in DOMAIN c.env
    /\ "VIRTUAL_PORT" \in DOMAIN c.env \/ Cardinality(c.ports) = 1

\* the names with a file when the cycle began and no listed container
Stopped ==
    {n \in FileNames \ ListedNames(apiContainers) :
        confBefore[n].exists \/ htBefore[n].exists}

\* the files of every stopped container are deleted and reload is invoked
StopResponse ==
    \A n \in Stopped :
        /\ ~confDir[n].exists
        /\ ~htDir[n].exists
        /\ confBefore[n].exists => <<"conf", n>> \in removed
        /\ htBefore[n].exists => <<"ht", n>> \in removed
        /\ reloads = 1

\* C10 as stated: a cycle without error writes the configuration file of every
\* eligible container that started, deletes the files of every container
\* that stopped, and invokes reload.
StartStopResponse ==
    pc = "sleep" =>
        /\ \A n \in started :
              Eligible(Listed(n)) => <<"conf", n>> \in wrote /\ reloads = 1
        /\ StopResponse

\* C10, amended: the same, for the started containers whose inspection and
\* rendering succeed and whose configuration file is absent or differs from
\* the rendering.
StartStopResponseRendered ==
    pc = "sleep" =>
        /\ \A n \in started :
              (Eligible(Listed(n)) /\ ~Listed(n).inspectErr /\ n \notin execErr)
              => /\ n \in EndpointNames(containers)
                 /\ confBefore[n] # File(Render(Endpoint(n)))
                       => <<"conf", n>> \in wrote /\ reloads = 1
        /\ StopResponse

\* one container started and another, with credentials, stopped
WitnessStartStopResponse ==
    /\ pc = "sleep"
    /\ completed
    /\ \E n \in started : Eligible(Listed(n)) /\ <<"conf", n>> \in wrote
    /\ \E n \in Stopped : <<"conf", n>> \in removed /\ <<"ht", n>> \in removed
    /\ reloads = 1

\* C11: every write or deletion of a file is followed by a reload before a
\* cycle without change completes, also when the process ended between the
\* change and the reload and was started again: when a cycle completes, no
\* change of an ended run is left without a reload, and the cycle's own
\* changes were followed by one.
ReloadFollowsChange ==
    pc = "sleep" => /\ ~unloaded
                    /\ (Changed => reloads > 0)

\* what a cycle that runs to its end without error makes of a directory
CycleConf(dir, ccs, exec) ==
    removeOldFiles(writeNewFiles("conf", dir, ccs, NoFault, exec).dir, ccs, NoFault).dir
CycleHt(dir, ccs, exec) ==
    removeOldFiles(writeNewFiles("ht", dir, ccs, NoFault, exec).dir, ccs, NoFault).dir

\* the first cycle of a run that follows an ended run has completed, on the
\* endpoints of the cycle in which that run ended
Resumed ==
    /\ pc = "sleep"
    /\ interrupted.is
    /\ containers = interrupted.ccs

\* C12: when the process ended at any step of a cycle and was started again
\* with the same inventory, the first cycle that completes after the restart
\* leaves both directories as a cycle without interruption would have made
\* them from the directories the interrupted cycle began with.
ReReconciliation ==
    Resumed => /\ confDir = CycleConf(interrupted.conf, containers, execErr)
               /\ htDir = CycleHt(interrupted.ht, containers, execErr)

\* a run ended inside a cycle that had changed one configuration file, and
\* the cycle after the restart has written another one and completed
WitnessReReconciliation ==
    /\ Resumed
    /\ \E n \in FileNames : /\ interrupted.conf[n] # confDir[n]
                             /\ <<"conf", n>> \notin wrote \cup removed
    /\ \E n \in FileNames : <<"conf", n>> \in wrote

\* the content the current cycle wants in the file n of a directory
Candidate(d, n) ==
    IF d = "conf" THEN File(Render(Endpoint(n))) ELSE File(HtpasswdContent(Endpoint(n)))

\* file n of directory d holds what it held when the cycle began, or the
\* whole of what the cycle wants in it
WholeFile(d, dir, before, n) ==
    dir[n].exists =>
        \/ dir[n] = before[n]
        \/ /\ n \in EndpointNames(containers)
           /\ dir[n] = Candidate(d, n)

\* C13: in every state, also after a write failed inside writeIfChanged,
\* every file of the two directories holds its complete previous content or
\* the complete new content; no truncated or partly written file is seen.
FileAtomicity ==
    \A n \in FileNames : /\ WholeFile("conf", confDir, confBefore, n)
                          /\ WholeFile("ht", htDir, htBefore, n)

\* the names of the endpoints that have credentials
WithCredentials(ccs) == {ccs[i].Name : i \in {j \in 1..Len(ccs) : ccs[j].HtpasswdEntries # <<>>}}

\* C14: after every cycle that completes without error, the credentials
\* directory holds a file named n if and only if an endpoint is named n and
\* has credentials, whatever the directory held before.
CredentialsMatch ==
    pc = "sleep" => Existing(htDir) = WithCredentials(containers)

\* C14, amended: after every cycle that completes without error, the
\* credentials directory holds a file named n if and only if an endpoint is
\* named n and either has credentials or found a file of its name there
\* when the cycle began.
CredentialsMatchOwned ==
    pc = "sleep" =>
        Existing(htDir) =
            {n \in EndpointNames(containers) :
                n \in WithCredentials(containers) \/ htBefore[n].exists}

\* an endpoint has lost its credentials and keeps the file an earlier cycle
\* wrote for it, while a file was written for an endpoint with credentials
WitnessCredentialsMatch ==
    /\ pc = "sleep"
    /\ completed
    /\ \E n \in EndpointNames(containers) \ WithCredentials(containers) :
            /\ htDir[n].exists
            /\ htDir[n].data # Old
    /\ \E n \in WithCredentials(containers) : <<"ht", n>> \in wrote

\* the steps of a cycle after the one whose error ended the process have
\* not run
LaterStepsSkipped ==
    /\ err \in {"list", "writeConf", "writeHt", "rmConf", "rmHt"} => reloads = 0
    /\ err \in {"list", "writeConf"} => \A n \in FileNames : <<"ht", n>> \notin wrote
    /\ err \in {"list", "writeConf", "writeHt"} => removed = {}
    /\ err = "rmConf" => \A n \in FileNames : <<"ht", n>> \notin removed

\* C15: when directory creation, a file read, write or deletion, a directory
\* listing or the reload fails in a cycle, the rest of the cycle is not run
\* (no reload after a failed write or deletion), the process exits, and
\* nothing happens in that process run afterwards.
FatalErrorsStop ==
    /\ [](err # "nil" => pc = "exited" /\ LaterStepsSkipped)
    /\ [][pc # "exited"]_vars

\* a deletion failed in a cycle that had written a file: the process has
\* exited with the reload due and not invoked
WitnessFatalErrorsStop ==
    /\ pc = "exited"
    /\ err = "rmConf"
    /\ wrote # {}
    /\ reloadRequired
    /\ reloads = 0

\* C16: when client.ListContainers fails, the process exits without writing
\* or deleting a file in either directory and without a reload in that
\* cycle; the failed listing is not taken for an empty inventory.
DiscoveryFailureFrame ==
    apiContainers.listErr =>
        /\ pc = "exited"
        /\ err = "list"
        /\ confDir = confBefore
        /\ htDir = htBefore
        /\ wrote = {}
        /\ removed = {}
        /\ reloads = 0

\* the listing fails in a cycle that follows one which wrote files: both
\* directories keep the files an empty inventory would have deleted
WitnessDiscoveryFailureFrame ==
    /\ apiContainers.listErr
    /\ completed
    /\ \E n \in FileNames : confDir[n].exists /\ confDir[n].data # Old
    /\ \E n \in FileNames : htDir[n].exists /\ htDir[n].data # Old

\* the listed containers that were inspected and pass the exclusion rules,
\* in listing order
Passing(api) == SelectSeq(api.list, LAMBDA c : ~c.inspectErr /\ Eligible(c))

\* C17: getExistingContainers returns an error only when the listing fails;
\* when the listing succeeds and inspections fail, it returns, in listing
\* order, exactly the endpoints of the other containers that pass the
\* exclusion rules.
InspectionFailureSkipped ==
    pc # "discover" =>
        /\ err = "list" <=> apiContainers.listErr
        /\ ~apiContainers.listErr =>
              LET passing == Passing(apiContainers)
              IN  /\ Len(containers) = Len(passing)
                  /\ \A j \in 1..Len(passing) :
                        /\ containers[j].Name = TrimLeft(passing[j].name, {"/"})
                        /\ containers[j].VHost = passing[j].env["VIRTUAL_HOST"]

\* the inspection of the first of two listed containers failed and the
\* second one is the only endpoint
WitnessInspectionFailureSkipped ==
    /\ pc = "writeConf"
    /\ Len(apiContainers.list) = 2
    /\ apiContainers.list[1].inspectErr
    /\ Eligible(apiContainers.list[1])
    /\ Len(containers) = 1
    /\ containers[1].Name = TrimLeft(apiContainers.list[2].name, {"/"})

\* the HTPASSWD value of c does not decode as a sequence of strings
Malformed(c) ==
    /\ "HTPASSWD" \in DOMAIN c.env
    /\ \/ c.env["HTPASSWD"].kind \in {"syntax", "scalar"}
       \/ /\ c.env["HTPASSWD"].kind = "array"
          /\ \E i \in 1..Len(c.env["HTPASSWD"].elems) :
                c.env["HTPASSWD"].elems[i].t # "str"

\* C18: a container whose HTPASSWD value does not decode as a sequence of
\* strings, also one that decodes in part, still yields its endpoint, and
\* the endpoint has no credentials.
MalformedCredentials ==
    (pc # "discover" /\ ~apiContainers.listErr) =>
        \A i \in 1..Len(apiContainers.list) :
            LET c == apiContainers.list[i]
            IN  (~c.inspectErr /\ Eligible(c) /\ Malformed(c)) =>
                    /\ EndpointsOf(c) # {}
                    /\ \A j \in EndpointsOf(c) : containers[j].HtpasswdEntries = <<>>

\* the endpoints on which template.Execute fails in the current cycle
RenderFails == EndpointNames(containers) \cap execErr

\* the configuration pass of the current cycle when no I/O call fails
ConfigPass == writeNewFiles("conf", confDir, containers, NoFault, execErr)

\* C19: when rendering the template fails for an endpoint, its
\* configuration file is not created, overwritten or deleted in that cycle,
\* the failure is no change and no error, and the other endpoints of the
\* list are processed.
RenderFailureFrame ==
    /\ \A n \in RenderFails :
          /\ <<"conf", n>> \notin wrote \cup removed
          /\ confDir[n] = confBefore[n]
    /\ pc = "writeConf" =>
          /\ ~ConfigPass.err
          /\ ConfigPass.changed <=> ConfigPass.touched # {}
          /\ \A i \in 1..Len(containers) :
                containers[i].Name \notin execErr =>
                    ConfigPass.dir[containers[i].Name] = File(Render(containers[i]))
    /\ pc = "sleep" =>
          \A n \in EndpointNames(containers) \ execErr :
              confDir[n] = File(Render(Endpoint(n)))

\* rendering failed for the first of two endpoints, whose foreign file is
\* kept, and the file of the second was written; the cycle has completed
WitnessRenderFailureFrame ==
    /\ pc = "sleep"
    /\ Len(containers) = 2
    /\ containers[1].Name \in execErr
    /\ confDir[containers[1].Name] = File(Old)
    /\ <<"conf", containers[2].Name>> \in wrote
    /\ reloads = 1

RECURSIVE Lines(_)
\* the entries e (at least one), each but the last followed by one newline
Lines(e) ==
    IF Len(e) = 1 THEN e[1]
    ELSE Lines(SubSeq(e, 1, Len(e) - 1)) \o "\n" \o e[Len(e)]

\* C20: after every cycle that completes without error, the configuration
\* file of every endpoint that rendered holds its rendering, and the
\* credentials file of every endpoint with credentials holds its entries in
\* order, joined by single newlines without a trailing one, whatever the
\* files held before.
ContentConvergence ==
    pc = "sleep" =>
        \A i \in 1..Len(containers) :
            LET e == containers[i]
            IN  /\ e.Name \notin execErr =>
                      confDir[e.Name] = [exists |-> TRUE, data |-> [kind |-> "conf", cc |-> e]]
                /\ e.HtpasswdEntries # <<>> =>
                      htDir[e.Name] = [exists |-> TRUE,
                                       data |-> [kind |-> "text",
                                                 text |-> Lines(e.HtpasswdEntries)]]

\* a foreign configuration file and a foreign credentials file were
\* overwritten for an endpoint with two entries
WitnessContentConvergence ==
    /\ pc = "sleep"
    /\ \E i \in 1..Len(containers) :
          LET e == containers[i]
          IN  /\ Len(e.HtpasswdEntries) = 2
              /\ htDir[e.Name].data.text = "u:1\nv:2"
              /\ confBefore[e.Name] = File(Old)
              /\ htBefore[e.Name] = File(Old)
              /\ <<"conf", e.Name>> \in wrote
              /\ <<"ht", e.Name>> \in wrote

\* the file at path is missing from dir or differs from content
CreateOrDiffer(dir, path, content) ==
    ~dir[path].exists \/ dir[path].data # content

\* writeIfChanged changes no file of dir other than the one at path
OthersUntouched(dir, path, content, k) ==
    \A m \in FileNames \ {path} :
        writeIfChanged(dir, path, content, k).dir[m] = dir[m]

\* the claim's rule for one call: ioutil.WriteFile is called and true is
\* returned exactly when the file is missing or differs
WriteRule(dir, path, content, k) ==
    LET r == writeIfChanged(dir, path, content, k)
    IN  /\ r.changed <=> CreateOrDiffer(dir, path, content)
        /\ r.touched => r.changed
        /\ ~CreateOrDiffer(dir, path, content) => (r.dir = dir /\ ~r.changed)
        /\ OthersUntouched(dir, path, content, k)

\* the rule of the code for one call: the file counts as missing when
\* os.Stat fails, and a failed read ends the call before the comparison
WriteRuleOfCalls(dir, path, content, k) ==
    LET r == writeIfChanged(dir, path, content, k)
        statFails == ~dir[path].exists \/ k = "stat"
        readFails == ~statFails /\ k = "read"
    IN  /\ r.changed <=> (statFails \/ (~readFails /\ dir[path].data # content))
        /\ r.touched => r.changed
        /\ readFails => (r.dir = dir /\ ~r.changed /\ r.err)
        /\ (~statFails /\ dir[path].data = content) => (r.dir = dir /\ ~r.changed)
        /\ OthersUntouched(dir, path, content, k)

\* the endpoints of the current cycle that template.Execute renders
Rendered == {i \in 1..Len(containers) : containers[i].Name \notin execErr}

\* the endpoints of the current cycle that have credentials
Credentialed == {i \in 1..Len(containers) : Len(containers[i].HtpasswdEntries) > 0}

EndpointWellFormed ==
    pc # "discover" =>
        \A j \in 1..Len(containers) :
            /\ containers[j].VHost # ""
            /\ containers[j].ContainerPort # ""

\* C22: every endpoint comes from an inspected container that has
\* VIRTUAL_HOST set and either VIRTUAL_PORT set or exactly one exposed port,
\* and every such container yields an endpoint; its virtualHost is empty
\* exactly when VIRTUAL_HOST is set to the empty string and its
\* containerPort is empty exactly when VIRTUAL_PORT is set to the empty
\* string.
EndpointWellFormedUnlessSetEmpty ==
    (pc # "discover" /\ ~apiContainers.listErr) =>
        /\ \A j \in 1..Len(containers) :
              \E i \in 1..Len(apiContainers.list) : j \in EndpointsOf(apiContainers.list[i])
        /\ \A i \in 1..Len(apiContainers.list) :
              LET c == apiContainers.list[i]
              IN  /\ (~c.inspectErr /\ Eligible(c)) => EndpointsOf(c) # {}
                  /\ \A j \in EndpointsOf(c) :
                        /\ ~c.inspectErr
                        /\ Eligible(c)
                        /\ containers[j].VHost = "" <=> c.env["VIRTUAL_HOST"] = ""
                        /\ containers[j].ContainerPort = ""
                              <=> ("VIRTUAL_PORT" \in DOMAIN c.env
                                     /\ c.env["VIRTUAL_PORT"] = "")

\* a container with VIRTUAL_HOST and VIRTUAL_PORT both set to the empty
\* string, and two exposed ports, has yielded an endpoint
WitnessEndpointWellFormedUnlessSetEmpty ==
    /\ pc = "writeConf"
    /\ Len(apiContainers.list) = 1
    /\ Cardinality(apiContainers.list[1].ports) = 2
    /\ Len(containers) = 1
    /\ containers[1].VHost = ""
    /\ containers[1].ContainerPort = ""

\* the files of directory d ("conf" or "ht") written, and those deleted, so
\* far in the current cycle
Writes(d) == {n \in FileNames : <<d, n>> \in wrote}
Removals(d) == {n \in FileNames : <<d, n>> \in removed}

\* every write the current cycle owes to a directory has been made
ConfWritesDone ==
    \A i \in Rendered : confDir[containers[i].Name] = File(Render(containers[i]))
HtWritesDone ==
    \A i \in Credentialed :
        htDir[containers[i].Name] = File(HtpasswdContent(containers[i]))

\* the directory holds no file that no endpoint of the current cycle owns
NoStale(dir) == Existing(dir) \subseteq EndpointNames(containers)

\* C23 as stated: the configuration directory is reconciled, writes then
\* deletions, before any file operation on the credentials directory; the
\* credentials directory is then reconciled, writes then deletions, before
\* the reload decision; in each directory deletions follow the writes.
StepOrderPerDirectory ==
    [][/\ (Writes("conf")' \ Writes("conf") # {} \/ Removals("conf")' \ Removals("conf") # {})
            => (Writes("ht") = {} /\ Removals("ht") = {})
       /\ Writes("conf")' \ Writes("conf") # {} => Removals("conf") = {}
       /\ Writes("ht")' \ Writes("ht") # {} => Removals("ht") = {}
       /\ reloads' # reloads =>
            (ConfWritesDone /\ HtWritesDone /\ NoStale(confDir) /\ NoStale(htDir))]_vars

\* C23: in a cycle the configuration files are written first, then the
\* credentials files, then the stale configuration files are deleted, then
\* the stale credentials files, and then comes the reload decision: a write
\* follows no deletion of the cycle, in either directory, and the
\* configuration directory is fully reconciled only after the credentials
\* files have been written.
StepOrderWritesFirst ==
    [][/\ Writes("conf")' \ Writes("conf") # {}
            => (Writes("ht") = {} /\ removed = {})
       /\ Writes("ht")' \ Writes("ht") # {}
            => (ConfWritesDone /\ removed = {})
       /\ Removals("conf")' \ Removals("conf") # {}
            => (ConfWritesDone /\ HtWritesDone /\ Removals("ht") = {})
       /\ Removals("ht")' \ Removals("ht") # {}
            => (ConfWritesDone /\ HtWritesDone /\ NoStale(confDir))
       /\ reloads' # reloads =>
            (ConfWritesDone /\ HtWritesDone /\ NoStale(confDir) /\ NoStale(htDir))]_vars

\* a cycle has written and deleted files in both directories and has
\* invoked the reload
WitnessStepOrderWritesFirst ==
    /\ pc = "sleep"
    /\ Writes("conf") # {}
    /\ Writes("ht") # {}
    /\ Removals("conf") # {}
    /\ Removals("ht") # {}
    /\ reloads = 1

\* C24: the driver stops only by the fatal exit: the exited state is entered
\* only by a step that returned an error, and never without one; in every
\* other state a step can be taken; and when no step ever returns an error,
\* every cycle is followed by another one, discovery running infinitely
\* often.
NoNormalTermination ==
    /\ [](pc = "exited" => err # "nil")
    /\ [][pc' = "exited" => (err = "nil" /\ err' # "nil")]_vars
    /\ [](pc # "exited" => ENABLED Next)
    /\ ([]<>(pc = "discover") /\ []<>(pc = "writeConf")) \/ <>(err # "nil")

\* a cycle has completed without error and the next discovery has run
WitnessNoNormalTermination ==
    /\ completed
    /\ pc = "writeConf"
    /\ err = "nil"
    /\ reloads = 0

\* the container c, whose inspection had failed, is listed and inspected in
\* the current cycle
InspectedAgain(c) ==
    \E i \in 1..Len(apiContainers.list) :
        apiContainers.list[i] = [c EXCEPT !.inspectErr = FALSE]

\* C25: when a cycle completes without error, the files named as a listed
\* container whose inspection failed in it have been deleted from both
\* directories, and reload was invoked if there was one; and the artifacts
\* of a container that were deleted so are written again, with a reload, in
\* the next cycle that inspects the container and completes without error.
FailedInspectionActsLikeStop ==
    pc = "sleep" =>
        /\ \A c \in FailedInspections :
              LET n == TrimLeft(c.name, {"/"})
              IN  /\ confBefore[n].exists
                        => (<<"conf", n>> \in removed /\ ~confDir[n].exists)
                  /\ htBefore[n].exists
                        => (<<"ht", n>> \in removed /\ ~htDir[n].exists)
                  /\ (confBefore[n].exists \/ htBefore[n].exists) => reloads = 1
        /\ \A c \in uninspected :
              InspectedAgain(c) =>
                  LET e == Inspected(c)[1]
                  IN  /\ <<"conf", e.Name>> \in wrote
                      /\ confDir[e.Name] = File(Render(e))
                      /\ Len(e.HtpasswdEntries) > 0
                            => /\ <<"ht", e.Name>> \in wrote
                               /\ htDir[e.Name] = File(HtpasswdContent(e))
                      /\ reloads = 1

\* a container with credentials whose two files were deleted when its
\* inspection failed is inspected again: both files are written and reload
\* is invoked
WitnessFailedInspectionActsLikeStop ==
    /\ pc = "sleep"
    /\ \E c \in uninspected :
          /\ InspectedAgain(c)
          /\ Len(Inspected(c)[1].HtpasswdEntries) > 0
          /\ <<"conf", Inspected(c)[1].Name>> \in wrote
          /\ <<"ht", Inspected(c)[1].Name>> \in wrote
          /\ reloads = 1

====
